---- MODULE Spec2Model ----
(***************************************************************************)
(* climage: provider routing, capability validation and the generateMedia *)
(* pipeline (core/router.ts with the provider registrations it imports),   *)
(* the output paths (core/output.ts), slugify (util/strings.ts), the fal   *)
(* adapter's model-specific duration check, the poll loops of the xAI and  *)
(* Veo video adapters, the adapters' decoding of a vendor response, and    *)
(* two generate calls in progress on one provider module.                  *)
(*                                                                         *)
(* Conventions.  A JavaScript string that the code inspects character by   *)
(* character (the aspect ratio) is a sequence of one-character strings.    *)
(* An optional field is a sequence of length 0 (undefined) or 1; an        *)
(* optional string is the empty sequence / empty string when undefined     *)
(* (the code only ever tests such fields for truthiness).                  *)
(***************************************************************************)
EXTENDS Integers, Sequences, FiniteSets, TLC

VARIABLES
  pc,        \* position of the modelled call
  env,       \* ProviderEnv: environment variable -> optional value
  opts,      \* GenerateOptions the caller passed to generateMedia
  req,       \* GenerateRequest built by normalizeOptions
  provider,  \* the Provider under validation, or the one pickProvider returned
  error,     \* "none", or the kind of Error the call threw
  trace,     \* steps of generateMedia performed so far, in order
  partials,  \* GeneratedMediaPartial[] returned by provider.generate
  items,     \* GeneratedMedia[] accumulated by generateMedia
  files,     \* paths written by writeMediaFile
  now,       \* the wall clock, in seconds since the call began
  slugs,     \* a string followed by the results of slugify applied to it in turn
  job,       \* the asynchronous video job an adapter created and polls
  response,  \* the entries of the vendor response the adapter decoded
  verboseMode, \* let verboseMode of a provider module
  calls      \* the generate calls in progress on that provider

vars ==
  <<pc, env, opts, req, provider, error, trace, partials, items, files, now,
    slugs, job, response, verboseMode, calls>>

(***************************************************************************)
(* Bounds of the model                                                     *)
(***************************************************************************)
MaxArLen == 5        \* longest aspect-ratio string enumerated
MaxDuration == 16    \* largest requested duration enumerated (seconds)
MaxN == 3            \* largest item count an adapter is asked for
MaxClock == 1        \* seconds that pass while one call writes its files
MaxSlugLen == 4      \* longest free part of a string given to slugify
MaxPolls == 121      \* status polls counted for one video job

(***************************************************************************)
(* Strings (String.prototype.trim, replace(/\s+/g,''), RegExp.test)         *)
(***************************************************************************)
Digits == {"0", "1", "2", "3", "4", "5", "6", "7", "8", "9"}

\* the regular expression class \s
IsWs(c) == c \in {" ", "\t", "\n"}

IsDigit(c) == c \in Digits

RECURSIVE TrimStart(_)
TrimStart(s) ==
  IF s # <<>> /\ IsWs(Head(s)) THEN TrimStart(Tail(s)) ELSE s

RECURSIVE TrimEnd(_)
TrimEnd(s) ==
  IF s # <<>> /\ IsWs(s[Len(s)]) THEN TrimEnd(SubSeq(s, 1, Len(s) - 1)) ELSE s

\* req.aspectRatio.trim()
Trim(s) == TrimEnd(TrimStart(s))

\* a replace without the g flag: only the first whitespace run is removed
RECURSIVE RemoveFirstWsRun(_)
RemoveFirstWsRun(s) ==
  IF s = <<>> THEN s
  ELSE IF IsWs(Head(s)) THEN TrimStart(s)
  ELSE <<Head(s)>> \o RemoveFirstWsRun(Tail(s))

\* ar.replace(/\s+/g, '')
RemoveWs(s) == SelectSeq(s, LAMBDA c : ~IsWs(c))

\* /^\d+$/-style helpers for the two sides of the colon
AllDigits(s) == \A i \in 1..Len(s) : IsDigit(s[i])

AllWs(s) == \A i \in 1..Len(s) : IsWs(s[i])

\* the pattern without its ^ and $ anchors
LooksLikeRatioUnanchored(ar) ==
  \E i \in 2..(Len(ar) - 1) :
    /\ ar[i] = ":"
    /\ \E k \in 1..(i - 1) : IsDigit(ar[k]) /\ AllWs(SubSeq(ar, k + 1, i - 1))
    /\ \E k \in (i + 1)..Len(ar) : AllWs(SubSeq(ar, i + 1, k - 1)) /\ IsDigit(ar[k])

\* /^\d+\s*:\s*\d+$/.test(ar)
LooksLikeRatio(ar) ==
  \E i \in 1..Len(ar) :
    /\ ar[i] = ":"
    /\ \E k \in 1..(i - 1) :
         /\ AllDigits(SubSeq(ar, 1, k))
         /\ AllWs(SubSeq(ar, k + 1, i - 1))
    /\ \E k \in (i + 1)..Len(ar) :
         /\ AllWs(SubSeq(ar, i + 1, k - 1))
         /\ AllDigits(SubSeq(ar, k, Len(ar)))

\* Array.prototype.includes on a list of strings
Includes(list, s) == \E i \in 1..Len(list) : list[i] = s

(***************************************************************************)
(* util/strings.ts: slugify                                                *)
(***************************************************************************)
Upper ==
  <<"A", "B", "C", "D", "E", "F", "G", "H", "I", "J", "K", "L", "M",
    "N", "O", "P", "Q", "R", "S", "T", "U", "V", "W", "X", "Y", "Z">>

Lower ==
  <<"a", "b", "c", "d", "e", "f", "g", "h", "i", "j", "k", "l", "m",
    "n", "o", "p", "q", "r", "s", "t", "u", "v", "w", "x", "y", "z">>

\* String.prototype.toLowerCase, one character at a time
LowerChar(c) ==
  IF \E i \in 1..Len(Upper) : Upper[i] = c
    THEN Lower[CHOOSE i \in 1..Len(Upper) : Upper[i] = c]
    ELSE c

ToLowerCase(s) == [ i \in 1..Len(s) |-> LowerChar(s[i]) ]

\* the character class [a-z0-9]
IsSlugChar(c) == IsDigit(c) \/ \E i \in 1..Len(Lower) : Lower[i] = c

\* the grave accent, which a TLA+ string cannot hold
Grave == "U+0060"

\* .replace(/['"`]/g, '')
RemoveQuotes(s) == SelectSeq(s, LAMBDA c : c \notin {"'", "\"", Grave})

\* .replace(/[^a-z0-9]+/g, '-'): every maximal run of other characters
\* becomes one hyphen
RECURSIVE HyphenateRuns(_)
HyphenateRuns(s) ==
  IF s = <<>> THEN s
  ELSE IF IsSlugChar(Head(s)) THEN <<Head(s)>> \o HyphenateRuns(Tail(s))
  ELSE IF Len(s) > 1 /\ ~IsSlugChar(s[2]) THEN HyphenateRuns(Tail(s))
  ELSE <<"-">> \o HyphenateRuns(Tail(s))

RECURSIVE StripLeadingHyphens(_)
StripLeadingHyphens(s) ==
  IF s # <<>> /\ Head(s) = "-" THEN StripLeadingHyphens(Tail(s)) ELSE s

\* .replace(/-+$/g, '')
RECURSIVE StripTrailingHyphens(_)
StripTrailingHyphens(s) ==
  IF s # <<>> /\ s[Len(s)] = "-"
    THEN StripTrailingHyphens(SubSeq(s, 1, Len(s) - 1))
    ELSE s

\* .replace(/^-+|-+$/g, '')
StripHyphens(s) == StripTrailingHyphens(StripLeadingHyphens(s))

\* s.slice(0, maxLen)
Slice(s, maxLen) == SubSeq(s, 1, IF Len(s) < maxLen THEN Len(s) ELSE maxLen)

\* a cut at maxLen that keeps the hyphen the cut may end on
TruncateKeepingHyphen(s, maxLen) == Slice(s, maxLen)

\* s.slice(0, maxLen).replace(/-+$/g, '')
Truncate(s, maxLen) == StripTrailingHyphens(Slice(s, maxLen))

\* the default of slugify's parameter maxLen
maxLen == 60

placeholder == <<"i", "m", "a", "g", "e">>

\* function slugify(input, maxLen = 60)
slugify(input) ==
  LET s == StripHyphens(HyphenateRuns(RemoveQuotes(ToLowerCase(Trim(input)))))
  IN  IF s = <<>> THEN placeholder
      ELSE IF Len(s) > maxLen THEN Truncate(s, maxLen) ELSE s

(***************************************************************************)
(* JavaScript numbers.  A number is NaN or a multiple of one half, which   *)
(* is enough for the integers and fractions a caller passes as n.          *)
(***************************************************************************)
NaN == [ nan |-> TRUE, halves |-> 0 ]

Num(k) == [ nan |-> FALSE, halves |-> 2 * k ]

Halves(h) == [ nan |-> FALSE, halves |-> h ]

\* Math.floor
MathFloor(x) == IF x.nan THEN NaN ELSE Halves(2 * (x.halves \div 2))

\* Math.min and Math.max return NaN when an argument is NaN
MathMin(a, b) ==
  IF a.nan \/ b.nan THEN NaN ELSE IF a.halves < b.halves THEN a ELSE b

MathMax(a, b) ==
  IF a.nan \/ b.nan THEN NaN ELSE IF a.halves > b.halves THEN a ELSE b

\* a > b and a < b: false when an operand is NaN
Gt(a, b) == ~a.nan /\ ~b.nan /\ a.halves > b.halves

Lt(a, b) == ~a.nan /\ ~b.nan /\ a.halves < b.halves

DigitValue(c) == CHOOSE d \in 0..9 : ToString(d) = c

RECURSIVE Decimal(_)
Decimal(s) ==
  IF s = <<>> THEN 0 ELSE 10 * Decimal(SubSeq(s, 1, Len(s) - 1)) + DigitValue(s[Len(s)])

\* Number(v) on a command-line value: the decimal numerals the model uses
\* (digits, optionally followed by .5), whitespace ignored at both ends, the
\* empty string 0, anything else NaN
Number(v) ==
  LET t == Trim(v)
  IN  IF t = <<>> THEN Num(0)
      ELSE IF AllDigits(t) THEN Num(Decimal(t))
      ELSE IF /\ Len(t) > 2 /\ AllDigits(SubSeq(t, 1, Len(t) - 2))
              /\ SubSeq(t, Len(t) - 1, Len(t)) = <<".", "5">>
        THEN Halves(2 * Decimal(SubSeq(t, 1, Len(t) - 2)) + 1)
      ELSE NaN

\* String(k) for a non-negative integer k
RECURSIVE String(_)
String(k) ==
  IF k < 10 THEN <<ToString(k)>> ELSE String(k \div 10) \o <<ToString(k % 10)>>

\* String.prototype.padStart(len, ch)
RECURSIVE padStart(_, _, _)
padStart(s, len, ch) == IF Len(s) >= len THEN s ELSE padStart(<<ch>> \o s, len, ch)

(***************************************************************************)
(* Capability model and provider registrations                             *)
(***************************************************************************)
googleCapabilities ==
  [ maxInputImages |-> 3,
    supportedAspectRatios |->
      << <<"1", ":", "1">>, <<"4", ":", "3">>, <<"3", ":", "4">>,
         <<"1", "6", ":", "9">>, <<"9", ":", "1", "6">> >>,
    supportsCustomAspectRatio |-> FALSE,
    supportsVideoInterpolation |-> TRUE,
    videoDurationRange |-> <<4, 8>>,
    supportsImageEditing |-> TRUE ]

xaiCapabilities ==
  [ maxInputImages |-> 10,
    supportedAspectRatios |-> <<>>,
    supportsCustomAspectRatio |-> TRUE,
    supportsVideoInterpolation |-> FALSE,
    videoDurationRange |-> <<1, 15>>,
    supportsImageEditing |-> TRUE ]

falCapabilities ==
  [ maxInputImages |-> 7,
    supportedAspectRatios |-> <<>>,
    supportsCustomAspectRatio |-> FALSE,
    supportsVideoInterpolation |-> TRUE,
    videoDurationRange |-> <<2, 15>>,
    supportsImageEditing |-> TRUE ]

openaiCapabilities ==
  [ maxInputImages |-> 2,
    supportedAspectRatios |-> <<>>,
    supportsCustomAspectRatio |-> FALSE,
    supportsVideoInterpolation |-> FALSE,
    videoDurationRange |-> <<>>,
    supportsImageEditing |-> TRUE ]

googleProvider ==
  [ id |-> "google", supports |-> {"image", "video"},
    capabilities |-> googleCapabilities,
    keys |-> <<"GEMINI_API_KEY", "GOOGLE_API_KEY", "GOOGLE_GENAI_API_KEY">> ]

xaiProvider ==
  [ id |-> "xai", supports |-> {"image", "video"},
    capabilities |-> xaiCapabilities,
    keys |-> <<"XAI_API_KEY", "XAI_TOKEN", "GROK_API_KEY">> ]

falProvider ==
  [ id |-> "fal", supports |-> {"image", "video"},
    capabilities |-> falCapabilities,
    keys |-> <<"FAL_API_KEY", "FAL_KEY">> ]

openaiProvider ==
  [ id |-> "openai", supports |-> {"image"},
    capabilities |-> openaiCapabilities,
    keys |-> <<"OPENAI_API_KEY", "OPENAI_KEY">> ]

\* const providers: Provider[] = [googleProvider, xaiProvider, falProvider, openaiProvider]
providers == <<googleProvider, xaiProvider, falProvider, openaiProvider>>

\* the value of `provider` before pickProvider has returned
NoProvider ==
  [ id |-> "none", supports |-> {}, capabilities |-> openaiCapabilities, keys |-> <<>> ]

(***************************************************************************)
(* validateRequestForProvider                                              *)
(***************************************************************************)
Ok == "ok"
ErrInputCount == "InputCount"
ErrAspectRatio == "AspectRatio"
ErrInterpolation == "Interpolation"
ErrDuration == "Duration"
ErrImageEditing == "ImageEditing"

\* a count that takes the start and end frames for input images as well
inputCountWithFrames(r) ==
  Len(r.inputImages) + (IF r.startFrame # "" THEN 1 ELSE 0)
                     + (IF r.endFrame # "" THEN 1 ELSE 0)

\* const inputCount = req.inputImages?.length ?? 0
inputCount(r) == Len(r.inputImages)

\* the comparison written >= instead of >
InputCountExceededOffByOne(r, caps) == inputCount(r) >= caps.maxInputImages

\* if (inputCount > caps.maxInputImages) throw
InputCountExceeded(r, caps) == inputCount(r) > caps.maxInputImages

\* the block guarded by if (req.aspectRatio): "return" leaves the validator,
\* "throw" raises the aspect-ratio error, "next" falls through to the later rules
AspectRatioRule(r, caps) ==
  LET ar == Trim(r.aspectRatio)
      normalized == RemoveWs(ar)
  IN  IF r.aspectRatio = <<>> THEN "next"
      ELSE IF caps.supportsCustomAspectRatio = TRUE THEN "return"
      ELSE IF Len(caps.supportedAspectRatios) > 0
        THEN IF Includes(caps.supportedAspectRatios, normalized)
               THEN "return" ELSE "throw"
      ELSE IF ~LooksLikeRatio(ar) THEN "throw"
      ELSE "next"

\* if (req.endFrame && !caps.supportsVideoInterpolation) throw
InterpolationRejected(r, caps) ==
  r.endFrame # "" /\ ~caps.supportsVideoInterpolation

\* if (req.duration !== undefined && req.kind === 'video' && caps.videoDurationRange)
\*   { if (req.duration < min || req.duration > max) throw }
DurationRejected(r, caps) ==
  /\ r.duration # <<>>
  /\ r.kind = "video"
  /\ caps.videoDurationRange # <<>>
  /\ \/ r.duration[1] < caps.videoDurationRange[1]
     \/ r.duration[1] > caps.videoDurationRange[2]

\* if (req.kind === 'image' && inputCount > 0 && !caps.supportsImageEditing) throw
ImageEditingRejected(r, caps) ==
  r.kind = "image" /\ inputCount(r) > 0 /\ ~caps.supportsImageEditing

\* the error validateRequestForProvider throws, or Ok when it returns
validateRequestForProvider(r, p) ==
  LET caps == p.capabilities
  IN  IF InputCountExceeded(r, caps) THEN ErrInputCount
      ELSE IF AspectRatioRule(r, caps) = "throw" THEN ErrAspectRatio
      ELSE IF AspectRatioRule(r, caps) = "return" THEN Ok
      ELSE IF InterpolationRejected(r, caps) THEN ErrInterpolation
      ELSE IF DurationRejected(r, caps) THEN ErrDuration
      ELSE IF ImageEditingRejected(r, caps) THEN ErrImageEditing
      ELSE Ok

(***************************************************************************)
(* Inputs of the validator: capability sets and requests                   *)
(***************************************************************************)
\* values of the ProviderCapabilities interface other than the registered four
\* (the validator takes any Provider)
StubCapabilities ==
  [ maxInputImages : {1},
    supportedAspectRatios :
      { <<>>, << <<"4", ":", "3">>, <<"1", "6", ":", "9">> >> },
    supportsCustomAspectRatio : BOOLEAN,
    supportsVideoInterpolation : BOOLEAN,
    videoDurationRange : { <<>>, <<2, 8>> },
    supportsImageEditing : BOOLEAN ]

StubProvider(caps) ==
  [ id |-> "stub", supports |-> {"image", "video"}, capabilities |-> caps,
    keys |-> <<>> ]

Registered == { providers[i] : i \in 1..Len(providers) }

ValidatorProviders == Registered \cup { StubProvider(c) : c \in StubCapabilities }

\* a list of k resolved input images
Images(k) == [ i \in 1..k |-> "data:image/png;base64" ]

Alphabet == {"4", "3", ":", " ", "\t", "x"}

StringsUpTo(n) == UNION { [1..k -> Alphabet] : k \in 0..n }

AspectSamples ==
  { <<>>, <<"4", ":", "3">>, <<"4", " ", ":", " ", "3">>, <<"5", ":", "7">>,
    <<"1", "6", ":", "9">>, <<"w", "i", "d", "e">> }

Durations == { <<>> } \cup { <<d>> : d \in 0..MaxDuration }

\* function defaultFormatForKind
defaultFormatForKind(kind) == IF kind = "video" THEN "mp4" ELSE "png"

\* process.cwd(), and path.resolve(cwd, p) for a relative path p
cwd == <<"cwd">>

PathResolve(base, p) == base \o p

\* a GenerateRequest without an explicit out path, model, format or start
\* frame, named "a-cat" and stamped at second 0
Request(sel, n, kind, ar, k, endFrame, duration) ==
  [ provider |-> sel, model |-> <<>>, n |-> Num(n), kind |-> kind,
    aspectRatio |-> ar, format |-> defaultFormatForKind(kind),
    outDir |-> cwd, out |-> <<>>, nameBase |-> <<"a", "-", "c", "a", "t">>,
    timestamp |-> 0, inputImages |-> Images(k), startFrame |-> "",
    endFrame |-> endFrame, duration |-> duration ]

NoOptions == [ provider |-> <<>> ]

\* requests that vary every field the validator reads, around p's limits
SampleRequests(p) ==
  { Request(p.id, 1, kind, ar, k, ef, d) :
      kind \in {"image", "video"}, ar \in AspectSamples,
      k \in {0, 1, p.capabilities.maxInputImages, p.capabilities.maxInputImages + 1},
      ef \in {"", "data:end"}, d \in Durations }

\* requests that vary the aspect-ratio string exhaustively
AspectRequests(p) ==
  { Request(p.id, 1, "image", ar, 0, "", <<>>) : ar \in StringsUpTo(MaxArLen) }

AspectProviders ==
  { googleProvider, falProvider, xaiProvider, openaiProvider } \cup
  { StubProvider(c) : c \in { s \in StubCapabilities :
        /\ ~s.supportsCustomAspectRatio /\ s.supportedAspectRatios # <<>>
        /\ s.supportsVideoInterpolation /\ s.supportsImageEditing
        /\ s.videoDurationRange = <<>> } }

NoEnv == [ v \in {} |-> <<>> ]

\* no video job has been created
NoJob == [ vendor |-> "none" ]

InitValidate ==
  /\ pc = "request"
  /\ env = NoEnv
  /\ opts = NoOptions
  /\ error = "none"
  /\ trace = <<>>
  /\ partials = <<>>
  /\ items = <<>>
  /\ files = {}
  /\ now = 0
  /\ slugs = <<>>
  /\ job = NoJob
  /\ response = <<>>
  /\ verboseMode = FALSE
  /\ calls = <<>>
  /\ provider \in ValidatorProviders
  /\ \/ req \in SampleRequests(provider)
     \/ provider \in AspectProviders /\ req \in AspectRequests(provider)

\* one call validateRequestForProvider(req, provider)
Validate ==
  /\ pc = "request"
  /\ error' = validateRequestForProvider(req, provider)
  /\ pc' = "validated"
  /\ UNCHANGED <<env, opts, req, provider, trace, partials, items, files, now, slugs, job, response, verboseMode, calls>>

NextValidate == Validate

SpecValidate == InitValidate /\ [][NextValidate]_vars

(***************************************************************************)
(* Claims about validateRequestForProvider (specification SpecValidate)     *)
(***************************************************************************)
Validated == pc = "validated"

caps == provider.capabilities

\* the rules of the validator in their documented order, none skipping another
FirstViolatedRule(r, c) ==
  IF inputCount(r) > c.maxInputImages THEN ErrInputCount
  ELSE IF AspectRatioRule(r, c) = "throw" THEN ErrAspectRatio
  ELSE IF r.endFrame # "" /\ ~c.supportsVideoInterpolation THEN ErrInterpolation
  ELSE IF DurationRejected(r, c) THEN ErrDuration
  ELSE IF r.kind = "image" /\ inputCount(r) > 0 /\ ~c.supportsImageEditing
    THEN ErrImageEditing
  ELSE Ok

\* C1: every request that carries an end frame is rejected when the provider's
\* capabilities have supportsVideoInterpolation = false, whatever its other
\* fields are.
C1_EndFrameAlwaysRejected ==
  (Validated /\ req.endFrame # "" /\ ~caps.supportsVideoInterpolation)
    => error # Ok

\* C2: for a video request with a duration and a provider that declares
\* videoDurationRange [min,max], a request that violates no earlier rule is
\* rejected by the duration rule iff the duration is outside [min,max],
\* also when an aspect ratio is present and accepted.
C2_DurationRuleAlwaysApplied ==
  (/\ Validated
   /\ req.kind = "video" /\ req.duration # <<>> /\ caps.videoDurationRange # <<>>
   /\ inputCount(req) <= caps.maxInputImages
   /\ AspectRatioRule(req, caps) # "throw"
   /\ ~(req.endFrame # "" /\ ~caps.supportsVideoInterpolation))
    => ( error = Ok <=>
           /\ caps.videoDurationRange[1] <= req.duration[1]
           /\ req.duration[1] <= caps.videoDurationRange[2] )

\* C3: the validator fails with the error of the first violated rule in the
\* order input-image count, aspect ratio, end-frame interpolation, video
\* duration, image editing, and passes only when no rule is violated.
C3_FirstViolatedRuleDecides ==
  Validated => error = FirstViolatedRule(req, caps)

\* C4: a request with more than maxInputImages input images fails with the
\* input-count error whatever else it violates, and a request with at most
\* maxInputImages input images never fails with the input-count error.
C4_InputCountBoundary ==
  Validated =>
    /\ inputCount(req) > caps.maxInputImages => error = ErrInputCount
    /\ inputCount(req) <= caps.maxInputImages => error # ErrInputCount
    /\ inputCount(req) = caps.maxInputImages + 1 => error = ErrInputCount

\* a request one image over the limit that also has a malformed aspect ratio,
\* an end frame and an out-of-range duration fails with the input-count error
C4_Witness ==
  /\ Validated
  /\ inputCount(req) = caps.maxInputImages + 1
  /\ req.aspectRatio = <<"w", "i", "d", "e">>
  /\ req.endFrame # "" /\ ~caps.supportsVideoInterpolation
  /\ error = ErrInputCount

\* every whitespace character deleted
WithoutWhitespace(s) == SelectSeq(s, LAMBDA c : c \notin {" ", "\t"})

HasAllowList(c) ==
  ~c.supportsCustomAspectRatio /\ Len(c.supportedAspectRatios) > 0

\* C5: with an allow-list and no custom-ratio support, a present aspect ratio
\* (on a request within the input-count limit) is accepted iff, with all its
\* whitespace removed, it is a member of the allow-list; with ["4:3","16:9"],
\* "4:3" and "4 : 3" pass and "5:7" fails.
C5_AllowListMembership ==
  (Validated /\ HasAllowList(caps) /\ req.aspectRatio # <<>>
     /\ inputCount(req) <= caps.maxInputImages)
    => /\ error # ErrAspectRatio <=>
            \E i \in 1..Len(caps.supportedAspectRatios) :
              caps.supportedAspectRatios[i] = WithoutWhitespace(req.aspectRatio)
       /\ caps.supportedAspectRatios = << <<"4", ":", "3">>, <<"1", "6", ":", "9">> >>
            => /\ req.aspectRatio = <<"4", ":", "3">> => error # ErrAspectRatio
               /\ req.aspectRatio = <<"4", " ", ":", " ", "3">> => error # ErrAspectRatio
               /\ req.aspectRatio = <<"5", ":", "7">> => error = ErrAspectRatio

\* "4 : 3" validated against the allow-list ["4:3","16:9"] and accepted
C5_Witness ==
  /\ Validated
  /\ caps.supportedAspectRatios = << <<"4", ":", "3">>, <<"1", "6", ":", "9">> >>
  /\ ~caps.supportsCustomAspectRatio
  /\ req.aspectRatio = <<"4", " ", ":", " ", "3">>
  /\ error = Ok

NoAspectDeclaration(c) ==
  ~c.supportsCustomAspectRatio /\ Len(c.supportedAspectRatios) = 0

\* digits, a colon, digits and nothing else
LiteralRatio(s) ==
  \E i \in 2..(Len(s) - 1) :
    /\ s[i] = ":"
    /\ \A j \in 1..Len(s) : j # i => s[j] \in Digits

\* the character classes of s with every run collapsed to one letter
RECURSIVE Shape(_)
Shape(s) ==
  LET cls(c) == IF c \in Digits THEN "d"
                ELSE IF c \in {" ", "\t"} THEN "w"
                ELSE IF c = ":" THEN ":" ELSE "o"
  IN  IF s = <<>> THEN <<>>
      ELSE IF Len(s) > 1 /\ cls(s[1]) = cls(s[2]) /\ cls(s[1]) \in {"d", "w"}
        THEN Shape(Tail(s))
      ELSE <<cls(s[1])>> \o Shape(Tail(s))

\* integer, optional whitespace, colon, optional whitespace, integer, with
\* optional whitespace before and after
PaddedRatio(s) ==
  \E lead \in {<<>>, <<"w">>}, a \in {<<>>, <<"w">>}, b \in {<<>>, <<"w">>},
     trail \in {<<>>, <<"w">>} :
    Shape(s) = lead \o <<"d">> \o a \o <<":">> \o b \o <<"d">> \o trail

ErrUnknownProvider == "UnknownProvider"
ErrProviderUnavailable == "ProviderUnavailable"
ErrNoProviders == "NoProvidersAvailable"

EnvVars ==
  UNION { { providers[i].keys[j] : j \in 1..Len(providers[i].keys) } :
            i \in 1..Len(providers) }

\* an environment value is undefined (<<>>), the empty string or a key
EnvValues == { <<>>, <<"">>, <<"sk-key">> }

\* Boolean(v) of a string | undefined
Truthy(v) == v # <<>> /\ v[1] # ""

\* Boolean(env.A || env.B || env.C) over the provider's credential variables
isAvailable(p, e) == \E j \in 1..Len(p.keys) : Truthy(e[p.keys[j]])

\* Array.prototype.find: the least of the indices that satisfy the test, or 0
FindIndex(hits) ==
  IF hits = {} THEN 0 ELSE CHOOSE i \in hits : \A j \in hits : i <= j

\* an explicit selector whose provider is unavailable falls back to auto-detection
pickProviderWithFallback(id, e) ==
  LET byId == FindIndex({ i \in 1..Len(providers) : providers[i].id = id })
      avail == FindIndex({ i \in 1..Len(providers) : isAvailable(providers[i], e) })
  IN  IF id # "auto" /\ byId = 0
        THEN [ provider |-> NoProvider, error |-> ErrUnknownProvider ]
      ELSE IF id # "auto" /\ isAvailable(providers[byId], e)
        THEN [ provider |-> providers[byId], error |-> "none" ]
      ELSE IF avail = 0
        THEN [ provider |-> NoProvider, error |-> ErrNoProviders ]
      ELSE [ provider |-> providers[avail], error |-> "none" ]

\* auto-detection returns the last available provider instead of the first
pickProviderLastAvailable(id, e) ==
  LET byId == FindIndex({ i \in 1..Len(providers) : providers[i].id = id })
      hits == { i \in 1..Len(providers) : isAvailable(providers[i], e) }
  IN  IF id # "auto"
        THEN IF byId = 0
               THEN [ provider |-> NoProvider, error |-> ErrUnknownProvider ]
             ELSE IF ~isAvailable(providers[byId], e)
               THEN [ provider |-> NoProvider, error |-> ErrProviderUnavailable ]
             ELSE [ provider |-> providers[byId], error |-> "none" ]
      ELSE IF hits = {}
        THEN [ provider |-> NoProvider, error |-> ErrNoProviders ]
      ELSE [ provider |-> providers[CHOOSE i \in hits : \A j \in hits : j <= i],
             error |-> "none" ]

\* the Provider pickProvider returns, or the error it throws
pickProvider(id, e) ==
  LET byId == FindIndex({ i \in 1..Len(providers) : providers[i].id = id })
      avail == FindIndex({ i \in 1..Len(providers) : isAvailable(providers[i], e) })
  IN  IF id # "auto"
        THEN IF byId = 0
               THEN [ provider |-> NoProvider, error |-> ErrUnknownProvider ]
             ELSE IF ~isAvailable(providers[byId], e)
               THEN [ provider |-> NoProvider, error |-> ErrProviderUnavailable ]
             ELSE [ provider |-> providers[byId], error |-> "none" ]
      ELSE IF avail = 0
        THEN [ provider |-> NoProvider, error |-> ErrNoProviders ]
      ELSE [ provider |-> providers[avail], error |-> "none" ]

\* the selectors a caller can pass: auto, the registered ids, an unregistered id
Selectors == { "auto", "google", "xai", "fal", "openai", "vercel" }

Envs == [ EnvVars -> EnvValues ]

InitPick ==
  /\ pc = "select"
  /\ env \in Envs
  /\ req \in { Request(sel, 1, "image", <<>>, 0, "", <<>>) : sel \in Selectors }
  /\ opts = NoOptions
  /\ provider = NoProvider
  /\ error = "none"
  /\ trace = <<>>
  /\ partials = <<>>
  /\ items = <<>>
  /\ files = {}
  /\ now = 0
  /\ slugs = <<>>
  /\ job = NoJob
  /\ response = <<>>
  /\ verboseMode = FALSE
  /\ calls = <<>>

\* one call pickProvider(req.provider, env)
Pick ==
  /\ pc = "select"
  /\ provider' = pickProvider(req.provider, env).provider
  /\ error' = pickProvider(req.provider, env).error
  /\ pc' = "picked"
  /\ UNCHANGED <<env, opts, req, trace, partials, items, files, now, slugs, job, response, verboseMode, calls>>

NextPick == Pick

SpecPick == InitPick /\ [][NextPick]_vars

(***************************************************************************)
(* Claims about pickProvider (specification SpecPick)                       *)
(***************************************************************************)
Picked == pc = "picked"

IsRegistered(id) == \E i \in 1..Len(providers) : providers[i].id = id

ProviderById(id) == CHOOSE p \in Registered : p.id = id

\* some credential variable of the provider holds a non-empty value
HasCredential(p) ==
  \E v \in { p.keys[j] : j \in 1..Len(p.keys) } : env[v] \notin { <<>>, <<"">> }

\* C8: with an explicit selector id, pickProvider returns the registered
\* provider with that id iff it is registered and available; it fails with
\* the unknown-provider error when no provider has that id and with the
\* provider-unavailable error when the provider exists but none of its
\* credential variables is set; it never returns another provider.
C8_ExplicitSelector ==
  (Picked /\ req.provider # "auto") =>
    /\ (error = "none" /\ provider.id = req.provider)
         <=> (IsRegistered(req.provider) /\ HasCredential(ProviderById(req.provider)))
    /\ ~IsRegistered(req.provider) => error = ErrUnknownProvider
    /\ (IsRegistered(req.provider) /\ ~HasCredential(ProviderById(req.provider)))
         => error = ErrProviderUnavailable
    /\ error # "none" <=> provider = NoProvider
    /\ provider # NoProvider => provider.id = req.provider

\* xai selected explicitly without any xAI credential while Google is
\* available: the call fails and Google is not returned
C8_Witness ==
  /\ Picked /\ req.provider = "xai"
  /\ ~HasCredential(xaiProvider) /\ HasCredential(googleProvider)
  /\ error = ErrProviderUnavailable /\ provider = NoProvider

\* the documented priority order of auto-detection
Priority == <<"google", "xai", "fal", "openai">>

\* C9: with selector auto, pickProvider returns the first provider in the
\* order Google, xAI, fal.ai, OpenAI that is available, and fails with the
\* no-provider-available error iff none is available.
C9_AutoPriority ==
  (Picked /\ req.provider = "auto") =>
    /\ error = ErrNoProviders
         <=> \A i \in 1..Len(Priority) : ~HasCredential(ProviderById(Priority[i]))
    /\ error \in { "none", ErrNoProviders }
    /\ error = "none" =>
         \E i \in 1..Len(Priority) :
           /\ provider = ProviderById(Priority[i])
           /\ HasCredential(provider)
           /\ \A j \in 1..(i - 1) : ~HasCredential(ProviderById(Priority[j]))

\* xAI, fal.ai and OpenAI are all available, Google is not: auto returns xAI
C9_Witness ==
  /\ Picked /\ req.provider = "auto"
  /\ ~HasCredential(googleProvider) /\ HasCredential(xaiProvider)
  /\ HasCredential(falProvider) /\ HasCredential(openaiProvider)
  /\ provider = xaiProvider /\ error = "none"

(***************************************************************************)
(* generateMedia                                                           *)
(***************************************************************************)
ErrUnsupportedKind == "UnsupportedKind"
ErrInputFile == "InputFileError"
ErrProvider == "ProviderError"
ErrWrite == "WriteError"

ErrModelDuration == "ModelDurationError"

\* Math.min on two integers
Min(a, b) == IF a < b THEN a ELSE b

\* opts.x ?? dflt
OrElse(optional, dflt) == IF optional = <<>> THEN dflt ELSE optional[1]

\* function timestampLocalCompact: the local time to the second
timestampLocalCompact == now

\* resolveOutDir(opts.outDir ?? '.')
resolveOutDir == PathResolve(cwd, <<>>)

\* the GenerateRequest normalizeOptions returns once every input file is read
normalizeOptions(o) ==
  LET nRaw == OrElse(o.n, Num(1))
      kind == OrElse(o.kind, "image")
  IN  [ provider |-> OrElse(o.provider, "auto"),
        model |-> o.model,
        n |-> MathMax(Num(1), MathMin(Num(10), MathFloor(nRaw))),
        kind |-> kind,
        aspectRatio |-> o.aspectRatio,
        format |-> OrElse(o.format, defaultFormatForKind(kind)),
        outDir |-> resolveOutDir,
        out |-> IF o.out # <<>> THEN PathResolve(cwd, o.out) ELSE <<>>,
        nameBase |-> slugify(o.prompt),
        timestamp |-> timestampLocalCompact,
        inputImages |-> Images(Len(o.inputImages)),
        startFrame |-> IF o.startFrame # "" THEN "data:start" ELSE "",
        endFrame |-> IF o.endFrame # "" THEN "data:end" ELSE "",
        duration |-> o.duration ]

\* does normalizeOptions read a file of the caller
ReadsInputFiles(o) ==
  Len(o.inputImages) > 0 \/ o.startFrame # "" \/ o.endFrame # ""

\* function extensionForFormat: a switch over the six formats
extensionForFormat(format) ==
  CASE format = "jpg" -> "jpg"
    [] format = "png" -> "png"
    [] format = "webp" -> "webp"
    [] format = "mp4" -> "mp4"
    [] format = "webm" -> "webm"
    [] format = "gif" -> "gif"

\* a path: either the explicit path out, or the file
\* <base>-<timestamp><suffix>.<ext> in the directory dir
ExplicitPath(out) ==
  [ out |-> out, dir |-> <<>>, base |-> <<>>, timestamp |-> 0,
    suffix |-> <<>>, ext |-> "" ]

BuiltPath(dir, base, timestamp, suffix, ext) ==
  [ out |-> <<>>, dir |-> dir, base |-> base, timestamp |-> timestamp,
    suffix |-> suffix, ext |-> ext ]

\* a makeOutputPath that stamps each file when it is written
makeOutputPathStampedAtWrite(r, index) ==
  LET ext == extensionForFormat(r.format)
      suffix == IF Gt(r.n, Num(1))
                  THEN <<"-">> \o padStart(String(index + 1), 2, "0")
                  ELSE <<>>
  IN  IF r.out # <<>>
        THEN ExplicitPath(r.out)
        ELSE BuiltPath(r.outDir, r.nameBase, timestampLocalCompact, suffix, ext)

\* function makeOutputPath
makeOutputPath(r, index) ==
  LET ext == extensionForFormat(r.format)
      suffix == IF Gt(r.n, Num(1))
                  THEN <<"-">> \o padStart(String(index + 1), 2, "0")
                  ELSE <<>>
  IN  IF r.out # <<>>
        THEN ExplicitPath(r.out)
        ELSE BuiltPath(r.outDir, r.nameBase, r.timestamp, suffix, ext)

\* the earliest router, which dispatched without looking at provider.supports
SupportsAnyKind(p, kind) == TRUE

\* provider.supports.includes(req.kind)
SupportsKind(p, kind) == kind \in p.supports

(***************************************************************************)
(* providers/fal.ts: model selection and the model-specific duration check. *)
(* A model name is the sequence of its segments between slashes.           *)
(***************************************************************************)
DEFAULT_IMAGE_MODEL == <<"fal-ai", "flux", "dev">>

DEFAULT_IMAGE_TO_IMAGE_MODEL == <<"fal-ai", "flux", "dev", "image-to-image">>

DEFAULT_VIDEO_MODEL == <<"fal-ai", "ltxv-2", "text-to-video", "fast">>

DEFAULT_IMAGE_TO_VIDEO_MODEL == <<"fal-ai", "vidu", "q2", "image-to-video">>

KLING_V3_PRO_IMAGE_TO_VIDEO_MODEL ==
  <<"fal-ai", "kling-video", "v3", "pro", "image-to-video">>

DEFAULT_START_END_VIDEO_MODEL == <<"fal-ai", "vidu", "start-end-to-video">>

DEFAULT_REFERENCE_VIDEO_MODEL == <<"fal-ai", "vidu", "q2", "reference-to-video">>

\* model === KLING_V3_PRO_IMAGE_TO_VIDEO_MODEL ||
\* model.startsWith('fal-ai/kling-video/v3/')
isKlingV3Model(model) ==
  \/ model = KLING_V3_PRO_IMAGE_TO_VIDEO_MODEL
  \/ Len(model) > 3 /\ SubSeq(model, 1, 3) = <<"fal-ai", "kling-video", "v3">>

\* model.includes('/vidu/')
isViduModel(model) == \E i \in 2..(Len(model) - 1) : model[i] = "vidu"

\* function selectVideoModel
selectVideoModel(r) ==
  IF r.model # <<>> THEN r.model
  ELSE IF r.startFrame # "" /\ r.endFrame # "" THEN DEFAULT_START_END_VIDEO_MODEL
  ELSE IF Len(r.inputImages) > 0 /\ r.startFrame = ""
    THEN DEFAULT_REFERENCE_VIDEO_MODEL
  ELSE IF r.startFrame # "" \/ Len(r.inputImages) > 0
    THEN DEFAULT_IMAGE_TO_VIDEO_MODEL
  ELSE DEFAULT_VIDEO_MODEL

\* function selectImageModel
selectImageModel(r) ==
  IF r.model # <<>> THEN r.model
  ELSE IF Len(r.inputImages) > 0 THEN DEFAULT_IMAGE_TO_IMAGE_MODEL
  ELSE DEFAULT_IMAGE_MODEL

\* const model = req.kind === 'video' ? selectVideoModel(req) : selectImageModel(req)
falModel(r) == IF r.kind = "video" THEN selectVideoModel(r) ELSE selectImageModel(r)

\* req.duration < 3 || req.duration > 15
KlingDurationOutOfRange(d) == d < 3 \/ d > 15

\* a Vidu check that applies the provider-wide upper limit
ViduDurationOutOfProviderRange(d) == d < 2 \/ d > 15

\* req.duration < 2 || req.duration > 8
ViduDurationOutOfRange(d) == d < 2 \/ d > 8

\* the two throws of falProvider.generate between model selection and
\* fal.subscribe
FalDurationRejected(r) ==
  /\ r.kind = "video"
  /\ r.duration # <<>>
  /\ \/ isKlingV3Model(falModel(r)) /\ KlingDurationOutOfRange(r.duration[1])
     \/ isViduModel(falModel(r)) /\ ViduDurationOutOfRange(r.duration[1])

(***************************************************************************)
(* What the adapters return.  A vendor response is the sequence of its     *)
(* entries: "media" (an entry the adapter can decode: a URL, inline bytes, *)
(* a video payload), "skip" (an entry the adapter passes over in silence:  *)
(* a null entry, a fal item without url, an Imagen image without bytes, a  *)
(* Veo entry without video, a Gemini call whose candidate holds no image   *)
(* part), "neither" (an xAI or OpenAI item with neither url nor b64_json)  *)
(* and "throw" (a Gemini generateContent call that fails).  Google and fal *)
(* cut the loop to req.n; xAI and OpenAI visit every entry; Gemini makes   *)
(* req.n calls; an xAI video is one item.                                  *)
(***************************************************************************)
ErrEmpty == "EmptyResult"
ErrNoPayload == "ItemWithoutPayload"

\* MODEL_ALIASES[model] ?? model, and the default model, for the image
\* models the requests name
resolveModel(model) ==
  IF model = <<>> THEN <<"gemini-2.5-flash-image">>
  ELSE IF model = <<"nano-banana">> THEN <<"gemini-2.5-flash-image">>
  ELSE model

\* model.startsWith('gemini-'), on the model names the requests resolve to
isGeminiImageModel(model) ==
  model \in { <<"gemini-2.5-flash-image">>, <<"gemini-3-pro-image-preview">>,
              <<"gemini-3.1-flash-image-preview">> }

\* the function of the adapter that builds the items of the request
Adapter(p, r) ==
  CASE p.id = "xai" ->
         IF r.kind = "video" THEN "generateXaiVideo" ELSE "processXaiImageResponse"
    [] p.id = "openai" -> "generateOpenAI"
    [] p.id = "fal" -> "falProvider.generate"
    [] p.id = "google" ->
         IF r.kind = "video" THEN "generateWithVeo"
         ELSE IF isGeminiImageModel(resolveModel(r.model)) THEN "generateWithGemini"
         ELSE "generateWithImagen"
    [] OTHER -> "generate"

\* adapters whose loop runs over all of json.data
VisitsEveryEntry(adapter) == adapter \in {"processXaiImageResponse", "generateOpenAI"}

\* for (let i = 0; i < Math.min(items.length, req.n); i++): no iteration
\* when req.n is NaN
CutToN(k, n) == IF n.nan THEN 0 ELSE Min(k, n.halves \div 2)

\* for (let i = 0; i < req.n; i++) of generateWithGemini
GeminiCalls(n) == IF n.nan THEN 0 ELSE n.halves \div 2

\* the kinds of entry an adapter's response can hold
Entries(adapter) ==
  CASE adapter \in {"processXaiImageResponse", "generateOpenAI"} ->
         {"media", "skip", "neither"}
    [] adapter = "generateWithGemini" -> {"media", "skip", "throw"}
    [] adapter = "generateXaiVideo" -> {"media"}
    [] OTHER -> {"media", "skip"}

\* the responses enumerated: up to MaxN entries of any kind; for Gemini one
\* entry per call, the calls after the first MaxN giving an image
Responses(adapter, r) ==
  IF adapter = "generateXaiVideo" THEN { <<"media">> }
  ELSE IF adapter = "generateWithGemini"
    THEN LET calls_ == GeminiCalls(r.n)
             free == Min(calls_, MaxN)
         IN  { [ i \in 1..calls_ |-> IF i <= free THEN f[i] ELSE "media" ] :
                 f \in [ 1..free -> Entries(adapter) ] }
  ELSE UNION { [ 1..k -> Entries(adapter) ] : k \in 0..MaxN }

\* the number of entries the adapter's loop visits
Visited(adapter, r, resp) ==
  IF VisitsEveryEntry(adapter) \/ adapter \in {"generateWithGemini", "generateXaiVideo"}
    THEN Len(resp)
    ELSE CutToN(Len(resp), r.n)

\* the loop variable i of every entry pushed to the result, in order
RECURSIVE KeptIndices(_, _)
KeptIndices(resp, visited) ==
  IF visited = 0 THEN <<>>
  ELSE LET before == KeptIndices(resp, visited - 1)
       IN  IF resp[visited] = "media" THEN Append(before, visited - 1) ELSE before

\* adapters that end with if (!out.length) throw
ThrowsOnEmptyResult(adapter) ==
  adapter \in {"falProvider.generate", "generateWithGemini", "generateWithImagen",
               "generateWithVeo"}

\* the entries on which the loop throws: the else branch of the Shape A
\* adapters, the catch of generateWithGemini that rethrows
ThrowsOnEntry(entry) == entry \in {"neither", "throw"}

\* what the adapter makes of a response: the error it throws ("none" if it
\* returns) and the loop indices of the items it returns
Decode(adapter, r, resp) ==
  LET visited == Visited(adapter, r, resp)
      kept == KeptIndices(resp, visited)
  IN  IF Len(resp) = 0 /\ adapter # "generateWithGemini"
        THEN [ error |-> ErrEmpty, indices |-> <<>> ]
      ELSE IF \E i \in 1..visited : ThrowsOnEntry(resp[i])
        THEN [ error |-> IF adapter = "generateWithGemini" THEN ErrProvider
                         ELSE ErrNoPayload,
               indices |-> <<>> ]
      ELSE IF kept = <<>> /\ ThrowsOnEmptyResult(adapter)
        THEN [ error |-> ErrEmpty, indices |-> <<>> ]
      ELSE [ error |-> "none", indices |-> kept ]

\* content types a download declares; "" when the response has none
MimeTypes(kind) ==
  IF kind = "video" THEN {"", "video/mp4"} ELSE {"", "image/png", "image/jpeg"}

\* environments of the generateMedia runs: each provider's primary key set or not
PrimaryKeys == { providers[i].keys[1] : i \in 1..Len(providers) }

PrimaryEnvs ==
  { [ v \in EnvVars |-> IF v \in S THEN <<"sk-key">> ELSE <<>> ] :
      S \in SUBSET PrimaryKeys }

\* k local paths given as --input
Paths(k) == [ i \in 1..k |-> "ref.png" ]

\* generateMedia(prompt, {}): every option absent
DefaultOptions ==
  [ prompt |-> <<"A", " ", "c", "a", "t">>, provider |-> <<>>, model |-> <<>>,
    n |-> <<>>, kind |-> <<>>, aspectRatio |-> <<>>, format |-> <<>>,
    out |-> <<>>, inputImages |-> Paths(0), startFrame |-> "",
    endFrame |-> "", duration |-> <<>> ]

\* options that vary what provider selection and capability validation read
RoutingOptions ==
  { [ DefaultOptions EXCEPT !.provider = sel, !.kind = kind,
        !.aspectRatio = ar, !.inputImages = Paths(k), !.endFrame = ef,
        !.duration = d ] :
      sel \in { <<>> } \cup { <<x>> : x \in Selectors },
      kind \in { <<>>, <<"image">>, <<"video">> },
      ar \in { <<>>, <<"1", "6", ":", "9">> },
      k \in {0, 4}, ef \in {"", "end.png"}, d \in { <<>>, <<20>> } }

\* values of --n as parseArgs converts them
CliCounts ==
  { Number(v) : v \in { <<"2">>, <<"3">>, <<"1", "1">>, <<"2", ".", "5">>,
                         <<"a", "b", "c">> } }

\* values of opts.n: absent, from the command line, or a library caller's
Counts ==
  { <<>> } \cup { <<x>> : x \in CliCounts \cup { Num(k) : k \in {-1, 0, 1, MaxN} } }

\* options that vary what the output path is made of
OutputOptions ==
  { [ DefaultOptions EXCEPT !.provider = sel, !.n = n, !.format = f, !.out = out ] :
      sel \in { <<>>, <<"xai">> }, n \in Counts,
      f \in { <<>>, <<"png">>, <<"jpg">> }, out \in { <<>>, <<"out.png">> } }

\* input counts at and just above every provider's maximum, and 1 and 2
InputCounts ==
  {1, 2} \cup UNION { { providers[i].capabilities.maxInputImages,
                       providers[i].capabilities.maxInputImages + 1 } :
                     i \in 1..Len(providers) }

\* options that vary the number of input images per provider
InputOptions ==
  { [ DefaultOptions EXCEPT !.provider = <<providers[i].id>>, !.kind = <<kind>>,
        !.inputImages = Paths(k), !.endFrame = ef ] :
      i \in 1..Len(providers), kind \in {"image", "video"}, k \in InputCounts,
      ef \in {"", "end.png"} }

\* durations around the limits 2, 3, 8 and 15 of the fal models
FalDurations == { <<>> } \cup { <<d>> : d \in {1, 2, 3, 8, 9, 15, MaxDuration} }

FalModels ==
  { <<>>, KLING_V3_PRO_IMAGE_TO_VIDEO_MODEL,
    <<"fal-ai", "kling-video", "v3", "standard", "text-to-video">>,
    <<"fal-ai", "vidu", "q1", "text-to-video">>,
    <<"fal-ai", "minimax", "video-01">> }

\* fal video requests that vary what selectVideoModel and the duration
\* check read
FalVideoOptions ==
  { [ DefaultOptions EXCEPT !.provider = <<"fal">>, !.kind = <<"video">>,
        !.model = m, !.inputImages = Paths(k), !.startFrame = sf,
        !.endFrame = ef, !.duration = d ] :
      m \in FalModels, k \in {0, 1}, sf \in {"", "start.png"},
      ef \in {"", "end.png"}, d \in FalDurations }

\* google image requests that vary what resolveModel reads
GoogleImageOptions ==
  { [ DefaultOptions EXCEPT !.provider = <<"google">>, !.model = m, !.n = n ] :
      m \in { <<"nano-banana">>, <<"imagen-4.0-generate-001">> },
      n \in { <<>>, <<Num(2)>> } }

GenerateOptionsSet ==
  RoutingOptions \cup OutputOptions \cup InputOptions \cup FalVideoOptions
    \cup GoogleImageOptions

NoRequest == Request("auto", 1, "image", <<>>, 0, "", <<>>)

Init ==
  /\ pc = "start"
  /\ env \in PrimaryEnvs
  /\ opts \in GenerateOptionsSet
  /\ req = NoRequest
  /\ provider = NoProvider
  /\ error = "none"
  /\ trace = <<>>
  /\ partials = <<>>
  /\ items = <<>>
  /\ files = {}
  /\ now = 0
  /\ slugs = <<>>
  /\ job = NoJob
  /\ response = <<>>
  /\ verboseMode = FALSE
  /\ calls = <<>>

Fail(e) == pc' = "failed" /\ error' = e

\* const req = await normalizeOptions(prompt, opts, verbose)
NormalizeOptions ==
  /\ pc = "start"
  /\ trace' = Append(trace, "normalizeOptions")
  /\ \E readable \in BOOLEAN :
       IF ReadsInputFiles(opts) /\ ~readable
         THEN Fail(ErrInputFile) /\ UNCHANGED req
         ELSE /\ req' = normalizeOptions(opts)
              /\ pc' = "normalized"
              /\ UNCHANGED error
  /\ UNCHANGED <<env, opts, provider, partials, items, files, now, slugs, job, response, verboseMode, calls>>

\* const provider = pickProvider(req.provider, env)
PickProvider ==
  /\ pc = "normalized"
  /\ trace' = Append(trace, "pickProvider")
  /\ LET picked == pickProvider(req.provider, env)
     IN  IF picked.error # "none"
           THEN Fail(picked.error) /\ UNCHANGED provider
           ELSE /\ provider' = picked.provider
                /\ pc' = "picked"
                /\ UNCHANGED error
  /\ UNCHANGED <<env, opts, req, partials, items, files, now, slugs, job, response, verboseMode, calls>>

\* if (!provider.supports.includes(req.kind)) throw
CheckSupports ==
  /\ pc = "picked"
  /\ trace' = Append(trace, "supportsCheck")
  /\ IF ~SupportsKind(provider, req.kind)
       THEN Fail(ErrUnsupportedKind)
       ELSE pc' = "supported" /\ UNCHANGED error
  /\ UNCHANGED <<env, opts, req, provider, partials, items, files, now, slugs, job, response, verboseMode, calls>>

\* validateRequestForProvider(req, provider)
ValidateRequest ==
  /\ pc = "supported"
  /\ trace' = Append(trace, "validateRequestForProvider")
  /\ LET v == validateRequestForProvider(req, provider)
     IN  IF v # Ok THEN Fail(v) ELSE pc' = "valid" /\ UNCHANGED error
  /\ UNCHANGED <<env, opts, req, provider, partials, items, files, now, slugs, job, response, verboseMode, calls>>

\* provider.generate(req, env) up to the request it sends to the vendor: the
\* adapter throws (fal: the model-specific duration check), or goes on to
\* send
Generate ==
  /\ pc = "valid"
  /\ trace' = Append(trace, "generate")
  /\ IF provider.id = "fal" /\ FalDurationRejected(req)
       THEN Fail(ErrModelDuration)
       ELSE \/ Fail(ErrProvider)
            \/ pc' = "sending" /\ UNCHANGED error
  /\ UNCHANGED <<env, opts, req, provider, partials, items, files, now, slugs, job, response, verboseMode, calls>>

\* the rest of provider.generate: the request is sent to the vendor; the
\* request fails, or the adapter decodes the response and throws or returns
\* the partial results
Submit ==
  /\ pc = "sending"
  /\ trace' = Append(trace, "submit")
  /\ \/ Fail(ErrProvider) /\ UNCHANGED <<partials, response>>
     \/ \E resp \in Responses(Adapter(provider, req), req),
           mimeType \in MimeTypes(req.kind) :
          LET decoded == Decode(Adapter(provider, req), req, resp)
          IN  /\ response' = resp
              /\ IF decoded.error # "none"
                   THEN Fail(decoded.error) /\ UNCHANGED partials
                   ELSE /\ partials' =
                             [ i \in 1..Len(decoded.indices) |->
                                 [ kind |-> req.kind, provider |-> provider.id,
                                   index |-> decoded.indices[i],
                                   mimeType |-> mimeType ] ]
                        /\ pc' = "generated"
                        /\ UNCHANGED error
  /\ UNCHANGED <<env, opts, req, provider, items, files, now, slugs, job, verboseMode, calls>>

\* one iteration of the loop over partials: makeOutputPath, writeMediaFile
\* (which takes time), push
Persist ==
  /\ pc = "generated"
  /\ Len(items) < Len(partials)
  /\ trace' = Append(trace, "writeMediaFile")
  /\ \E t \in now..MaxClock : now' = t
  /\ LET i == Len(items)
         filePath == makeOutputPath(req, i)
     IN  \/ Fail(ErrWrite) /\ UNCHANGED <<items, files>>
         \/ /\ files' = files \cup { filePath }
            /\ items' = Append(items, [ partial |-> partials[i + 1], filePath |-> filePath ])
            /\ UNCHANGED <<pc, error>>
  /\ UNCHANGED <<env, opts, req, provider, partials, slugs, job, response, verboseMode, calls>>

\* return items
Return ==
  /\ pc = "generated"
  /\ Len(items) = Len(partials)
  /\ pc' = "done"
  /\ UNCHANGED <<env, opts, req, provider, error, trace, partials, items, files, now, slugs, job, response, verboseMode, calls>>

Next ==
  \/ NormalizeOptions
  \/ PickProvider
  \/ CheckSupports
  \/ ValidateRequest
  \/ Generate
  \/ Submit
  \/ Persist
  \/ Return

Spec == Init /\ [][Next]_vars

(***************************************************************************)
(* Claims about generateMedia (specification Spec)                          *)
(***************************************************************************)
Did(step) == \E i \in 1..Len(trace) : trace[i] = step

\* C10: a request whose media kind is not in the selected provider's supports
\* list is rejected with the unsupported-kind error, after provider selection
\* and before capability validation and before the adapter's generate.
C10_UnsupportedKindRejectedFirst ==
  /\ (provider # NoProvider /\ req.kind \notin provider.supports /\ pc # "picked")
       => /\ pc = "failed" /\ error = ErrUnsupportedKind
          /\ ~Did("validateRequestForProvider") /\ ~Did("generate")
          /\ partials = <<>> /\ files = {}
  /\ error = ErrUnsupportedKind
       => /\ trace = <<"normalizeOptions", "pickProvider", "supportsCheck">>
          /\ provider # NoProvider /\ req.kind \notin provider.supports

\* a video request with four input images reaches OpenAI (image only, at most
\* two input images) and fails on the media kind, not on the input count
C10_Witness ==
  /\ pc = "failed" /\ error = ErrUnsupportedKind
  /\ provider = openaiProvider /\ req.kind = "video"
  /\ inputCount(req) > openaiCapabilities.maxInputImages

(***************************************************************************)
(* Claims about the output paths (specification Spec)                       *)
(***************************************************************************)
\* the 0-based position at which generateMedia persisted items[i]
Position(i) == i - 1

\* -01, -02, ...: the suffix of the file at a position of a batch
PaddedSuffix(position) ==
  <<"-">> \o (IF position + 1 < 10 THEN <<"0">> ELSE <<>>) \o String(position + 1)

Persisted(i) == items[i].filePath

\* C11: the caller's explicit out path is used verbatim only when the batch
\* size is 1; in a batch of more than one item every item's path is built
\* from output directory + name base + shared timestamp + zero-padded index
\* + extension.
C11_ExplicitOutOnlyForSingleItem ==
  \A i \in 1..Len(items) :
    /\ Persisted(i).out # <<>> => ~Gt(req.n, Num(1))
    /\ Gt(req.n, Num(1)) =>
         Persisted(i) = BuiltPath(req.outDir, req.nameBase, req.timestamp,
                                  PaddedSuffix(Position(i)),
                                  extensionForFormat(req.format))

\* C12: for every n in 1..10 and every list of raw items the adapter
\* returns, generateMedia returns exactly one persisted entry per raw item,
\* in adapter order, and the file paths of the entries of one call are
\* pairwise distinct.
C12_OneDistinctFilePerRawItem ==
  pc = "done" =>
    /\ Len(items) = Len(partials)
    /\ \A i \in 1..Len(items) : items[i].partial = partials[i]
    /\ \A i, j \in 1..Len(items) : i # j => Persisted(i) # Persisted(j)

\* the scenario of C13: n = 3, no explicit out path, 3 items returned and
\* persisted
ThreeOfThree ==
  /\ pc = "done" /\ req.n = Num(3) /\ req.out = <<>> /\ Len(partials) = 3

\* C13: a request with n = 3 and no explicit out path, for which the adapter
\* returns 3 items, produces 3 files whose names share the name base and the
\* timestamp computed once for the request, and differ only by the suffixes
\* -01, -02, -03 assigned in item order.
C13_ThreeFilesShareBaseAndTimestamp ==
  ThreeOfThree =>
    /\ Len(items) = 3 /\ Cardinality(files) = 3
    /\ \A i, j \in 1..3 :
         /\ Persisted(i).base = Persisted(j).base
         /\ Persisted(i).timestamp = Persisted(j).timestamp
         /\ Persisted(i).dir = Persisted(j).dir
         /\ Persisted(i).ext = Persisted(j).ext
    /\ Persisted(1).base = req.nameBase /\ Persisted(1).timestamp = req.timestamp
    /\ Persisted(1).suffix = <<"-", "0", "1">>
    /\ Persisted(2).suffix = <<"-", "0", "2">>
    /\ Persisted(3).suffix = <<"-", "0", "3">>
    /\ files = { Persisted(i) : i \in 1..3 }

\* three files written while the clock moved on from the request's timestamp
C13_Witness ==
  /\ ThreeOfThree /\ Len(items) = 3 /\ Cardinality(files) = 3
  /\ now > req.timestamp
  /\ req.nameBase = <<"a", "-", "c", "a", "t">>

\* the extension that labels the bytes of a declared content type
ExtensionOfMimeType(mimeType) ==
  CASE mimeType = "image/jpeg" -> "jpg"
    [] mimeType = "image/png" -> "png"
    [] mimeType = "video/mp4" -> "mp4"

\* the adapter declared a content type for items[i] that is not the one of
\* the requested format
MimeTypeDisagrees(i) ==
  /\ items[i].partial.mimeType # ""
  /\ ExtensionOfMimeType(items[i].partial.mimeType) # extensionForFormat(req.format)

\* C14: when the MIME type the adapter declares for an item disagrees with
\* the requested format, the persisted file's extension is chosen from the
\* MIME type: image/jpeg for a request with format png is persisted as .jpg.
C14_ExtensionFollowsMimeType ==
  \A i \in 1..Len(items) :
    (MimeTypeDisagrees(i) /\ Persisted(i).out = <<>>) =>
      Persisted(i).ext = ExtensionOfMimeType(items[i].partial.mimeType)

(***************************************************************************)
(* Claims about normalizeOptions (specification Spec)                       *)
(***************************************************************************)
IsInteger(x) == ~x.nan /\ x.halves % 2 = 0

\* C15: for every numeric n supplied by the caller (0, negatives, fractions
\* and values above 10 included) the normalized n is an integer in [1,10],
\* and it is 1 when n is absent.
C15_CountIsIntegerFrom1To10 ==
  Did("normalizeOptions") =>
    /\ IsInteger(req.n) /\ ~Lt(req.n, Num(1)) /\ ~Gt(req.n, Num(10))
    /\ opts.n = <<>> => req.n = Num(1)

(***************************************************************************)
(* Claims about the input-image limits (specification Spec)                 *)
(***************************************************************************)
\* the column Max Input Images of the README's capability table
DocumentedMaxInputImages(id) ==
  CASE id = "google" -> 3 [] id = "xai" -> 1 [] id = "fal" -> 7 [] id = "openai" -> 2

\* the same column with xAI's declared limit
DeclaredMaxInputImages(id) ==
  CASE id = "google" -> 3 [] id = "xai" -> 10 [] id = "fal" -> 7 [] id = "openai" -> 2

ReachedValidation == provider # NoProvider /\ Did("validateRequestForProvider")

RejectedOnInputCount ==
  /\ pc = "failed" /\ error = ErrInputCount
  /\ ~Did("generate") /\ partials = <<>> /\ files = {}

FalVideoWithDuration ==
  /\ provider = falProvider /\ req.kind = "video" /\ req.duration # <<>>
  /\ Did("generate")

\* the duration is outside the range of the model fal selected
OutsideModelRange ==
  \/ isViduModel(falModel(req)) /\ req.duration[1] \notin 2..8
  \/ isKlingV3Model(falModel(req)) /\ req.duration[1] \notin 3..15

\* C17: for fal.ai video requests a Vidu model accepts a duration only in
\* 2..8 seconds and a Kling v3 model only in 3..15 seconds; a duration inside
\* the provider-wide range 2..15 but outside the selected model's range makes
\* generate fail before the job is submitted to fal.
C17_FalModelDurationEnforced ==
  FalVideoWithDuration =>
    /\ OutsideModelRange =>
         /\ pc = "failed" /\ error = ErrModelDuration
         /\ ~Did("submit") /\ partials = <<>>
    /\ error = ErrModelDuration => OutsideModelRange

\* nine seconds pass the provider-wide range and fail on the Vidu model that
\* fal selects for a request with one reference image
C17_Witness ==
  /\ FalVideoWithDuration /\ req.model = <<>>
  /\ falModel(req) = DEFAULT_REFERENCE_VIDEO_MODEL
  /\ req.duration = <<9>> /\ req.duration[1] \in 2..15
  /\ pc = "failed" /\ error = ErrModelDuration /\ ~Did("submit")

(***************************************************************************)
(* Claims about the adapters' results (specification Spec)                  *)
(***************************************************************************)
\* the vendor answered the request of this call and the adapter read the
\* answer
Answered == provider # NoProvider /\ Did("submit") /\ error # ErrProvider

HasEntry(kind) == \E i \in 1..Len(response) : response[i] = kind

MediaEntries == { i \in 1..Len(response) : response[i] = "media" }

\* C23: in a synchronous-batch (Shape A) adapter an item of the vendor
\* response that has neither a URL nor inline bytes fails only that item: the
\* sibling items already decoded are still returned and persisted.
C23_ItemWithoutPayloadFailsOnlyItself ==
  ( /\ provider # NoProvider /\ VisitsEveryEntry(Adapter(provider, req))
    /\ HasEntry("neither") /\ HasEntry("media") ) =>
      /\ error # ErrNoPayload
      /\ Len(partials) = Cardinality(MediaEntries)
      /\ pc = "done" => Len(items) = Cardinality(MediaEntries)

\* C24: in the Gemini image loop of N calls a failure on any one call is
\* fatal to the whole batch (generate fails and returns no partial list), so
\* a successful return holds one item for each of the N calls, in call order.
C24_GeminiBatchIsAllOrNothing ==
  ( /\ provider # NoProvider /\ Adapter(provider, req) = "generateWithGemini"
    /\ Did("submit") ) =>
      /\ HasEntry("throw") => pc = "failed" /\ partials = <<>>
      /\ pc \in {"generated", "done"} =>
           /\ Len(partials) = GeminiCalls(req.n)
           /\ \A i \in 1..Len(partials) : partials[i].index = i - 1

\* the steps of generateMedia that come before the first write
StepsBeforeWrite ==
  <<"normalizeOptions", "pickProvider", "supportsCheck",
    "validateRequestForProvider", "generate", "submit">>

\* C27: no output file is written unless provider selection, the media-kind
\* check, capability validation and the adapter's generate have all
\* completed successfully, in that order; a call that fails in any of these
\* steps leaves the filesystem unchanged.
C27_NoFileBeforeGenerateSucceeded ==
  /\ files # {} =>
       /\ Len(trace) > Len(StepsBeforeWrite)
       /\ SubSeq(trace, 1, Len(StepsBeforeWrite)) = StepsBeforeWrite
       /\ \A i \in (Len(StepsBeforeWrite) + 1)..Len(trace) : trace[i] = "writeMediaFile"
       /\ provider # NoProvider /\ req.kind \in provider.supports
       /\ validateRequestForProvider(req, provider) = Ok
       /\ partials # <<>>
  /\ (pc = "failed" /\ trace[Len(trace)] # "writeMediaFile") => files = {}

\* a call that wrote its files and returned
C27_Witness == pc = "done" /\ files # {} /\ Len(items) = 2

\* C28: for every persisted item of a batch with n > 1 the zero-padded
\* suffix of its file name equals the item's own index field plus 1, also
\* when the adapter skipped some of the per-item calls or response entries.
C28_SuffixIsOwnIndexPlusOne ==
  \A i \in 1..Len(items) :
    (Gt(req.n, Num(1)) /\ req.out = <<>>) =>
      Persisted(i).suffix = PaddedSuffix(items[i].partial.index)

\* C29: for every adapter and every vendor response the number of raw items
\* the adapter returns is at most the normalized request count n.
C29_AtMostNRawItems ==
  (pc \in {"generated", "done"} /\ IsInteger(req.n)) =>
    ~Gt(Num(Len(partials)), req.n)

\* C30: a generateMedia call that returns successfully returns at least one
\* persisted item: whenever the vendor responds with success status but no
\* usable media, the call fails with an empty-result error instead of
\* returning an empty list.
C30_SuccessMeansAtLeastOneItem ==
  /\ pc = "done" => Len(items) >= 1
  /\ (Answered /\ response # <<>> /\ \A i \in 1..Len(response) : response[i] = "skip") =>
       pc = "failed" /\ error = ErrEmpty

(***************************************************************************)
(* slugify applied to a string, and again to its result                    *)
(***************************************************************************)
\* a letter, a capital, a digit, a hyphen, a blank and a quote
SlugAlphabet == {"a", "B", "7", "-", " ", "'"}

\* k letters
Letters(k) == [ i \in 1..k |-> "a" ]

\* strings up to MaxSlugLen characters, alone or after a run of letters that
\* brings them to the cut at maxLen
SlugInputs ==
  { Letters(k) \o t :
      k \in {0} \cup ((maxLen - 3)..(maxLen + 1)),
      t \in UNION { [1..len -> SlugAlphabet] : len \in 0..MaxSlugLen } }

InitSlug ==
  /\ pc = "slugify"
  /\ env = NoEnv
  /\ opts = NoOptions
  /\ req = NoRequest
  /\ provider = NoProvider
  /\ error = "none"
  /\ trace = <<>>
  /\ partials = <<>>
  /\ items = <<>>
  /\ files = {}
  /\ now = 0
  /\ job = NoJob
  /\ response = <<>>
  /\ verboseMode = FALSE
  /\ calls = <<>>
  /\ \E input \in SlugInputs : slugs = <<input>>

\* one call slugify(x), x being the string or the previous result
Slugify ==
  /\ pc = "slugify"
  /\ Len(slugs) < 3
  /\ slugs' = Append(slugs, slugify(slugs[Len(slugs)]))
  /\ UNCHANGED <<pc, env, opts, req, provider, error, trace, partials, items,
                 files, now, job, response, verboseMode, calls>>

NextSlug == Slugify

SpecSlug == InitSlug /\ [][NextSlug]_vars

(***************************************************************************)
(* Claims about slugify (specification SpecSlug)                            *)
(***************************************************************************)
\* C18: slugify is idempotent: slugify(slugify(x)) = slugify(x) for every
\* string x, including those that slugify to the placeholder name and those
\* longer than the 60-character cap.
C18_SlugifyIdempotent ==
  Len(slugs) = 3 =>
    /\ slugs[3] = slugs[2]
    /\ Len(slugs[2]) \in 1..60
    /\ (\A i \in 1..Len(slugs[1]) : ~IsSlugChar(LowerChar(slugs[1][i])))
         => slugs[2] = placeholder /\ slugs[3] = placeholder

\* a string longer than the cap whose 60th slug character is a hyphen, so that
\* the cut is followed by the removal of that hyphen
C18_Witness ==
  /\ Len(slugs) = 3
  /\ Len(slugs[1]) > 60
  /\ Len(slugs[2]) = 59
  /\ slugs[3] = slugs[2]

(***************************************************************************)
(* The asynchronous video jobs: generateXaiVideo creates a request and     *)
(* polls /v1/videos/{request_id}; generateWithVeo starts a long-running    *)
(* operation and polls it.                                                 *)
(***************************************************************************)
ErrCreate == "JobCreationError"
ErrNoJobId == "NoJobId"
ErrPoll == "PollError"
ErrJobFailed == "JobFailed"
ErrTimedOut == "TimedOut"

\* const maxAttempts = 120 of generateXaiVideo
xaiMaxAttempts == 120

\* const maxAttempts = 60 of generateWithVeo
veoMaxAttempts == 60

\* identifiers a vendor gives a job: request_id, or the operation's name
JobIds == {"job-1", "job-2"}

\* a loop that makes one attempt more
xaiLoopContinuesInclusive(attempt) == attempt <= xaiMaxAttempts

\* for (let attempt = 0; attempt < maxAttempts; attempt++)
xaiLoopContinues(attempt) == attempt < xaiMaxAttempts

\* a loop that ends only when the operation is done
veoLoopContinuesUntilDone(attempt, done) == ~done

\* for (let attempt = 0; attempt < maxAttempts && !op.done; attempt++)
veoLoopContinues(attempt, done) == attempt < veoMaxAttempts /\ ~done

LoopContinues ==
  IF job.vendor = "xai" THEN xaiLoopContinues(job.attempt)
  ELSE veoLoopContinues(job.attempt, job.done)

\* the identifier in the message of the timed-out error:
\* `xAI video generation timed out (request_id=${requestId})`, and
\* 'Google Veo video generation timed out', which names none
TimedOutReports(vendor, id) == IF vendor = "xai" THEN id ELSE ""

\* the error of `if (result.video?.respect_moderation === false) throw`
ErrModeration == "ModerationBlocked"
\* the error of `if (!videos?.length) throw` of generateWithVeo
ErrNoVideos == "NoVideos"
\* the error of downloadBytes / downloadGeneratedVideo
ErrDownload == "DownloadError"

\* XaiVideoResultResponse: status, whether video.url is a non-empty string,
\* and video.respect_moderation (unset when the field or the video object
\* is absent); the three fields are independent in the type
XaiResponses ==
  [ status : {"pending", "done", "failed", "error"},
    url : BOOLEAN,
    moderation : {"unset", "true", "false"} ]

\* let result: XaiVideoResultResponse | undefined
NoResponse == [ status |-> "none", url |-> FALSE, moderation |-> "unset" ]

\* a job before its creation: no identifier, no attempt, no poll, not done,
\* never answered other than pending, no identifier reported, no poll
\* response kept, no download started
NewJob(vendor) ==
  [ vendor |-> vendor, id |-> "", attempt |-> 0, polls |-> 0, done |-> FALSE,
    pending |-> TRUE, reported |-> "", last |-> NoResponse, downloads |-> 0 ]

InitPoll ==
  /\ pc = "create"
  /\ env = NoEnv
  /\ opts = NoOptions
  /\ req = NoRequest
  /\ provider = NoProvider
  /\ error = "none"
  /\ trace = <<>>
  /\ partials = <<>>
  /\ items = <<>>
  /\ files = {}
  /\ now = 0
  /\ slugs = <<>>
  /\ response = <<>>
  /\ verboseMode = FALSE
  /\ calls = <<>>
  /\ \E vendor \in {"xai", "google"} : job = NewJob(vendor)

pollVars ==
  <<env, opts, req, provider, trace, partials, items, files, now, slugs,
    response, verboseMode, calls>>

\* the request that creates the job: it fails, or (xAI) answers without a
\* request_id, or gives the job's identifier; a Veo operation may be done
\* at once
CreateJob ==
  /\ pc = "create"
  /\ \/ Fail(ErrCreate) /\ UNCHANGED job
     \/ job.vendor = "xai" /\ Fail(ErrNoJobId) /\ UNCHANGED job
     \/ \E id \in JobIds, done \in BOOLEAN :
          /\ done => job.vendor = "google"
          /\ job' = [ job EXCEPT !.id = id, !.done = done ]
          /\ pc' = "poll"
          /\ UNCHANGED error
  /\ UNCHANGED pollVars

\* one iteration of the loop of generateXaiVideo: the request fails
\* (!res.ok), or its response is kept in result; a video URL leaves the loop
\* (break), otherwise a failed or error status throws, otherwise the loop
\* sleeps and goes on
PollXai ==
  \E ok \in BOOLEAN, json \in XaiResponses :
    LET polled == [ job EXCEPT !.polls = @ + 1,
                               !.pending = @ /\ ok /\ json.status = "pending"
                                             /\ ~json.url ]
    IN  IF ~ok
          THEN Fail(ErrPoll) /\ job' = polled
        ELSE IF json.url
          THEN /\ job' = [ polled EXCEPT !.last = json, !.done = TRUE ]
               /\ pc' = "polled"
               /\ UNCHANGED error
        ELSE IF json.status = "failed" \/ json.status = "error"
          THEN Fail(ErrJobFailed) /\ job' = [ polled EXCEPT !.last = json ]
        ELSE /\ job' = [ polled EXCEPT !.last = json, !.attempt = @ + 1 ]
             /\ UNCHANGED <<pc, error>>

\* one iteration of the loop of generateWithVeo: getVideosOperation throws,
\* or gives the operation, done or not
PollVeo ==
  \E answer \in {"pending", "done", "error"} :
    LET polled == [ job EXCEPT !.polls = @ + 1,
                               !.pending = @ /\ answer = "pending" ]
    IN  IF answer = "error"
          THEN Fail(ErrPoll) /\ job' = polled
        ELSE /\ job' = [ polled EXCEPT !.attempt = @ + 1,
                                       !.done = answer = "done" ]
             /\ UNCHANGED <<pc, error>>

\* one iteration of the poll loop
Poll ==
  /\ pc = "poll"
  /\ LoopContinues
  /\ job.polls < MaxPolls
  /\ IF job.vendor = "xai" THEN PollXai ELSE PollVeo
  /\ UNCHANGED pollVars

\* the loop condition fails
ExitLoop ==
  /\ pc = "poll"
  /\ ~LoopContinues
  /\ pc' = "polled"
  /\ UNCHANGED <<error, job>>
  /\ UNCHANGED pollVars

\* result?.video?.url of generateXaiVideo, op.done of generateWithVeo
HasResult == IF job.vendor = "xai" THEN job.last.url ELSE job.done

\* if (!result?.video?.url) throw / if (!op.done) throw: the timed-out error,
\* or the adapter goes on to the result
AfterLoop ==
  /\ pc = "polled"
  /\ IF ~HasResult
       THEN /\ Fail(ErrTimedOut)
            /\ job' = [ job EXCEPT !.reported = TimedOutReports(job.vendor, job.id) ]
       ELSE pc' = "result" /\ UNCHANGED <<error, job>>
  /\ UNCHANGED pollVars

\* what stands between the loop and the download: generateXaiVideo throws
\* when respect_moderation is false; generateWithVeo throws when the
\* operation's response holds no videos
CheckResult ==
  /\ pc = "result"
  /\ IF job.vendor = "xai"
       THEN IF job.last.moderation = "false"
              THEN Fail(ErrModeration)
              ELSE pc' = "download" /\ UNCHANGED error
       ELSE \/ Fail(ErrNoVideos)
            \/ pc' = "download" /\ UNCHANGED error
  /\ UNCHANGED job
  /\ UNCHANGED pollVars

\* downloadBytes(url) / downloadGeneratedVideo: the download is attempted
\* and fails, or gives the bytes and the adapter returns
Download ==
  /\ pc = "download"
  /\ job' = [ job EXCEPT !.downloads = @ + 1 ]
  /\ \/ Fail(ErrDownload)
     \/ pc' = "done" /\ UNCHANGED error
  /\ UNCHANGED pollVars

NextPoll ==
  \/ CreateJob
  \/ Poll
  \/ ExitLoop
  \/ AfterLoop
  \/ CheckResult
  \/ Download

SpecPoll == InitPoll /\ [][NextPoll]_vars

\* every request of the adapter returns and the adapter takes its next step
FairSpecPoll == SpecPoll /\ WF_vars(NextPoll)

(***************************************************************************)
(* Claims about the poll loops (specification SpecPoll)                     *)
(***************************************************************************)
\* the bounded number of status polls of an adapter
PollBudget == IF job.vendor = "xai" THEN 120 ELSE 60

\* the job was created and has answered pending to every poll so far
NeverDone == job.id # "" /\ job.pending /\ ~job.done

\* C19: a video job that never reaches a done state makes the call fail
\* with the timed-out error after exactly the adapter's bounded number of
\* polls (120 for xAI, 60 for Google Veo), not after fewer and not after
\* more.
C19_TimedOutAfterExactlyTheBudget ==
  /\ job.polls <= PollBudget
  /\ error = ErrTimedOut => job.polls = PollBudget /\ ~job.done
  /\ (NeverDone /\ job.polls < PollBudget) => pc = "poll" /\ error = "none"
  /\ (NeverDone /\ pc = "failed") => error = ErrTimedOut

\* 120 polls of an xAI job were all answered pending, and the call failed
C19_Witness ==
  /\ job.vendor = "xai" /\ NeverDone /\ job.polls = 120
  /\ pc = "failed" /\ error = ErrTimedOut

\* C20: the timed-out error an async video adapter raises when it exhausts
\* its polling budget reports the job identifier returned at job creation
\* (xAI request_id, Google Veo operation).
C20_TimedOutReportsJobId ==
  error = ErrTimedOut => job.id \in JobIds /\ job.reported = job.id

\* C21: in the xAI video polling loop a poll response reporting status
\* failed or error is fatal immediately: the call fails at that poll, no
\* further status poll is issued and no download is attempted.
C21_FailedStatusFatalAtOnce ==
  (job.vendor = "xai" /\ job.last.status \in {"failed", "error"}) =>
    pc = "failed" /\ error = ErrJobFailed /\ job.downloads = 0

\* C22: when the poll response of an xAI video job signals moderation
\* rejection (video.respect_moderation = false), the call fails with the
\* moderation-blocked error and never with the timed-out error or a generic
\* failure, whether or not the response carries a video URL.
C22_ModerationRejectionIsDistinct ==
  (job.vendor = "xai" /\ job.last.moderation = "false") =>
    /\ pc # "done" /\ job.downloads = 0
    /\ (pc = "failed" /\ error # ErrPoll) => error = ErrModeration

\* the three outcomes of a poll loop
LoopOutcome(o) ==
  CASE o = "Done" -> job.done
    [] o = "Failed" -> error \in {ErrPoll, ErrJobFailed}
    [] o = "TimedOut" -> error = ErrTimedOut

\* the call has returned or thrown; a call whose job was created has left
\* its poll loop with exactly one outcome
Terminated ==
  /\ pc \in {"done", "failed"}
  /\ job.id # "" =>
       Cardinality({ o \in {"Done", "Failed", "TimedOut"} : LoopOutcome(o) }) = 1

\* C25: every video generation call terminates: when each vendor request
\* returns, the poll loop of each async adapter (xAI, Google Veo) reaches
\* exactly one of Done, Failed or TimedOut after a bounded number of polls
\* (at most 120, respectively 60).
C25_VideoCallTerminates ==
  /\ [](job.polls <= PollBudget)
  /\ [](Cardinality({ o \in {"Done", "Failed", "TimedOut"} : LoopOutcome(o) }) <= 1)
  /\ <>[]Terminated

\* a Veo operation became done at the last poll of the budget and the call
\* returned its video
C25_Witness ==
  /\ job.vendor = "google" /\ job.polls = 60 /\ job.attempt = 60
  /\ LoopOutcome("Done") /\ pc = "done"

(***************************************************************************)
(* Two generate calls in progress on the xAI provider.  The module holds   *)
(* `let verboseMode = false`; generate assigns it from the request and     *)
(* log reads it.  A call runs without interruption from one await to the   *)
(* next: from its start to the fetch of the images, from the response to   *)
(* res.json(), from the JSON to the fetch of downloadBytes, and from the   *)
(* downloaded bytes to its return.  Each call keeps, for every such        *)
(* stretch it ran, whether its log lines were written.                      *)
(***************************************************************************)
Callers == {1, 2}

\* a call of xaiProvider.generate(req, env) that has not started
NewCall(verbose) == [ verbose |-> verbose, at |-> "called", logged |-> <<>> ]

InitVerbose ==
  /\ pc = "start"
  /\ env = NoEnv
  /\ opts = NoOptions
  /\ req = NoRequest
  /\ provider = NoProvider
  /\ error = "none"
  /\ trace = <<>>
  /\ partials = <<>>
  /\ items = <<>>
  /\ files = {}
  /\ now = 0
  /\ slugs = <<>>
  /\ job = NoJob
  /\ response = <<>>
  /\ verboseMode = FALSE
  /\ calls \in [ Callers -> { NewCall(v) : v \in BOOLEAN } ]

verboseVars ==
  <<pc, env, opts, req, provider, error, trace, partials, items, files, now,
    slugs, job, response>>

\* function log(...args) { if (verboseMode) console.error('[xai]', ...args) }:
\* whether a log call made now writes its line
log == verboseMode

\* the call runs its next stretch, whose log calls read verboseMode
Runs(c, from, to) ==
  /\ calls[c].at = from
  /\ calls' = [ calls EXCEPT ![c].at = to, ![c].logged = Append(@, log) ]
  /\ UNCHANGED verboseMode

\* verboseMode = req.verbose; log('Provider initialized, ...'); and
\* generateXaiImages up to await fetch(images/generations)
EnterGenerate(c) ==
  /\ calls[c].at = "called"
  /\ verboseMode' = calls[c].verbose
  /\ calls' = [ calls EXCEPT ![c].at = "fetching",
                             ![c].logged = Append(@, calls[c].verbose) ]
  /\ UNCHANGED verboseVars

\* log(`API responded ...`) up to await res.json()
AfterFetch(c) == Runs(c, "fetching", "parsing") /\ UNCHANGED verboseVars

\* log('Response data count:', ...) and processXaiImageResponse up to the
\* await fetch(url) of downloadBytes
AfterJson(c) == Runs(c, "parsing", "downloading") /\ UNCHANGED verboseVars

\* log(`Downloaded ...`), log(`Successfully generated ...`), return results
AfterDownload(c) == Runs(c, "downloading", "returned") /\ UNCHANGED verboseVars

NextVerbose ==
  \E c \in Callers :
    \/ EnterGenerate(c)
    \/ AfterFetch(c)
    \/ AfterJson(c)
    \/ AfterDownload(c)

SpecVerbose == InitVerbose /\ [][NextVerbose]_vars

(***************************************************************************)
(* Claims about concurrent calls (specification SpecVerbose)                *)
(***************************************************************************)
\* C26: providers hold no per-request state: when two generate calls on the
\* same provider run concurrently with different verbose settings, under
\* every interleaving each call's log output follows its own request's
\* verbose flag and is not switched on or off by the other call.
C26_LogFollowsOwnVerboseFlag ==
  calls[1].verbose # calls[2].verbose =>
    \A c \in Callers : \A i \in 1..Len(calls[c].logged) :
      calls[c].logged[i] = calls[c].verbose

====
